---- MODULE Spec2Model ----
(***************************************************************************)
(* npmup: the command line entry point (cli), the update producer          *)
(* (_update) and the pull request orchestration (_merge) of                *)
(* src/npmup/cli.py.  One run of cli is one behaviour.  The Git, GithubApp *)
(* and Settings collaborators are called by cli.py but live in other       *)
(* modules: every call is an action whose result is drawn from the results *)
(* the call can produce.                                                   *)
(***************************************************************************)
EXTENDS Integers, Sequences, FiniteSets, TLC

VARIABLES
    pc,                 \* the statement of cli / _merge that runs next
    merge,              \* --merge
    repository,         \* --repository ("" when the option is absent)
    app_given,          \* --github-app-id and --github-app-key both given
    asserts_enabled,    \* FALSE when the interpreter runs with -O
    workflows,          \* settings.workflows
    github_app,         \* the GithubApp object or "None"
    updates,            \* the dict returned by _update, in iteration order
    packages,           \* text of package.json returned by _update
    package_locks,      \* text of package-lock.json returned by _update
    head_ref,
    head_sha,
    branch_sha,
    pull_request_id,
    status,             \* last status observed for each workflow name
    polls,              \* status polls made by wait_for_workflows
    wait_result,        \* what wait_for_workflows returned
    commit,             \* arguments of the update_branch_files calls
    pull_request,       \* arguments of the create_pull_request calls
    comment,            \* text passed to create_issue_comment
    calls,              \* collaborator calls made so far, in order
    failed,             \* the calls that raised
    log,                \* logger / click.echo output, in order
    result              \* "running", "returned" or "raised"

vars == << pc, merge, repository, app_given, asserts_enabled, workflows,
           github_app, updates, packages, package_locks, head_ref, head_sha,
           branch_sha, pull_request_id, status, polls, wait_result, commit,
           pull_request, comment, calls, failed, log, result >>

----------------------------------------------------------------------------
(* Bounds of the model *)

MaxWorkflows == 2
MaxUpdates == 2
MaxPolls == 2

WorkflowNames == {"A", "B"}
PackageNames == {"left-pad", "lodash", "react"}
Versions == {"2.0.0"}

None == "None"

----------------------------------------------------------------------------
(* Text: a string is a sequence of tokens *)

RECURSIVE Join(_, _)
Join(parts, sep) ==
    IF Len(parts) = 0 THEN << >>
    ELSE IF Len(parts) = 1 THEN << parts[1] >>
    ELSE << parts[1], sep >> \o Join(Tail(parts), sep)

IsSpace(tok) == tok \in {"\n", " "}

RECURSIVE LStrip(_)
LStrip(text) ==
    IF Len(text) > 0 /\ IsSpace(Head(text)) THEN LStrip(Tail(text)) ELSE text

RECURSIVE RStrip(_)
RStrip(text) ==
    IF Len(text) > 0 /\ IsSpace(text[Len(text)])
    THEN RStrip(SubSeq(text, 1, Len(text) - 1))
    ELSE text

Strip(text) == LStrip(RStrip(text))

Contains(text, tok) == \E i \in DOMAIN text : text[i] = tok

Count(seq, x) == Cardinality({i \in DOMAIN seq : seq[i] = x})

RECURSIVE SeqsUpTo(_, _)
SeqsUpTo(S, n) ==
    IF n = 0 THEN {<< >>}
    ELSE LET shorter == SeqsUpTo(S, n - 1)
         IN shorter \cup {Append(s, x) : s \in {t \in shorter : Len(t) = n - 1}, x \in S}

NoDuplicateKeys(d) == \A i, j \in DOMAIN d : d[i][1] = d[j][1] => i = j

----------------------------------------------------------------------------
(* Results the collaborators of cli.py can produce *)

Statuses == {"pending", "success", "failure", "missing"}

\* settings.workflows: a list of workflow names
SettingsWorkflows == SeqsUpTo(WorkflowNames, MaxWorkflows)

\* the dict ncu reports: package name -> new version, keys unique
UpgradedDicts ==
    {d \in SeqsUpTo(PackageNames \X Versions, MaxUpdates) : NoDuplicateKeys(d)}

\* Git.get_head_ref() -> (Optional[str], Optional[str]), or it raises
GetHeadRefResults ==
    {<< "ok", r, s >> : r \in {"main", None}, s \in {"sha0", None}}
        \cup {<< "raise", None, None >>}

\* Git.create_branch(head_sha) -> Optional[str], or it raises
CreateBranchResults == {<< "ok", "sha0" >>, << "ok", None >>, << "raise", None >>}

\* Git.create_pull_request(...) -> Optional[int], or it raises
CreatePullRequestResults == {<< "ok", "pr1" >>, << "ok", None >>, << "raise", None >>}

\* a call whose return value cli.py does not use
CallResults == {"ok", "raise"}

\* Git.wait_for_workflows(workflows, pull_request_id): the verdict of the
\* status poll.  Every required workflow must report success; for an empty
\* list the verdict is not determined.
workflow_verdicts(required, observed) ==
    IF Len(required) = 0 THEN BOOLEAN
    ELSE {\A i \in DOMAIN required : observed[required[i]] = "success"}

\* a required workflow is settled once it reports success or failure
Settled(required, observed) ==
    \A i \in DOMAIN required : observed[required[i]] \in {"success", "failure"}

may_poll_without_timeout(n, required, observed) ==
    n = 0 \/ ~Settled(required, observed)

\* Git.wait_for_workflows polls again while the timeout (MaxPolls polls)
\* is not used up and some required workflow is not settled
may_poll(n, required, observed) ==
    n < MaxPolls /\ (n = 0 \/ ~Settled(required, observed))

\* Git.wait_for_workflows returns once every required workflow is settled
\* or the timeout is used up
wait_over(n, required, observed) ==
    n > 0 /\ (Settled(required, observed) \/ n >= MaxPolls)

----------------------------------------------------------------------------
(* Pure parts of cli.py *)

\* Python truthiness of an Optional[str] / Optional[int] / str value
Truthy(v) == v \notin {None, ""}

\* the backquote character of the f-string of line 99
Backtick == "<backquote>"

\* line 96
commit_summary(updated_packages) ==
    << "npmup (", ToString(Len(updated_packages)), " updates)" >>

RECURSIVE commit_description_reversed(_)
commit_description_reversed(updated_packages) ==
    IF Len(updated_packages) = 0 THEN << >>
    ELSE commit_description_reversed(Tail(updated_packages))
         \o << Backtick, updated_packages[1][1], Backtick, ": ",
               Backtick, updated_packages[1][2], Backtick, "\n" >>

\* lines 97-99
RECURSIVE commit_description(_)
commit_description(updated_packages) ==
    IF Len(updated_packages) = 0 THEN << >>
    ELSE << Backtick, updated_packages[1][1], Backtick, ": ",
            Backtick, updated_packages[1][2], Backtick, "\n" >>
         \o commit_description(Tail(updated_packages))

file_patch_lock_only(packages_text, package_lock_text) ==
    [path \in {"package.json", "package-lock.json"} |-> package_lock_text]

\* lines 105-108
file_patch(packages_text, package_lock_text) ==
    [path \in {"package.json", "package-lock.json"} |->
        IF path = "package.json" THEN packages_text ELSE package_lock_text]

\* line 127
comment_text(required) ==
    << "Expected workflow (" >> \o Join(required, ", ") \o << ") failed" >>

usage_error_ignored(merge_flag, repo) == FALSE

\* line 152
usage_error(merge_flag, repo) == merge_flag /\ ~Truthy(repo)

merge_wanted_without_updates(merge_flag, updated, packages_text, package_lock_text) ==
    merge_flag /\ Truthy(packages_text) /\ Truthy(package_lock_text)

\* line 170
merge_wanted(merge_flag, updated, packages_text, package_lock_text) ==
    merge_flag /\ Len(updated) > 0 /\ Truthy(packages_text) /\ Truthy(package_lock_text)

head_unresolved_both(ref, sha) == ~Truthy(ref) /\ ~Truthy(sha)

\* line 90
head_unresolved(ref, sha) == ~Truthy(ref) \/ ~Truthy(sha)

head_unresolved_result_raise == "raised"

\* line 92: a plain return
head_unresolved_result == "returned"

\* line 114: assert branch_sha is not None (no check under python -O)
assert_fails(sha, enabled) == enabled /\ sha = None

after_create_pull_request_no_wait(id) ==
    IF Truthy(id) THEN "merge_pull_request" ELSE "done"

\* lines 115-118 and the fall through to the end of _merge
after_create_pull_request(id) ==
    IF Truthy(id) THEN "wait_for_workflows" ELSE "done"

after_wait_for_workflows_always_merge(verdict) == "merge_pull_request"

after_wait_for_workflows_inverted(verdict) ==
    IF verdict THEN "create_issue_comment" ELSE "merge_pull_request"

\* lines 119-123
after_wait_for_workflows(verdict) ==
    IF verdict THEN "merge_pull_request" ELSE "create_issue_comment"

after_merge_pull_request_cleanup == "delete_branch"

after_merge_pull_request_close == "create_issue_comment"

\* line 121 is the last statement of its branch
after_merge_pull_request == "done"

after_create_issue_comment_unguarded(outcome) ==
    IF outcome = "raise" THEN "done" ELSE "delete_branch"

\* lines 124-131: the try/except around create_issue_comment
after_create_issue_comment(outcome) == "delete_branch"

uncaught_swallowed(outcome) == "returned"

\* an exception no statement of cli.py catches leaves _merge and cli
uncaught(outcome) == IF outcome = "raise" THEN "raised" ELSE "returned"

----------------------------------------------------------------------------
(* _update, lines 43-75: every way the function can end.  Each outcome is  *)
(* the returned triple, the programs it ran, what it logged and whether it *)
(* raised (subprocess.check_output and check_call raise on a non-zero exit)*)

UpdateOutcome(upd, pkg, lock, ran, logged, how) ==
    [updates |-> upd, packages |-> pkg, package_locks |-> lock,
     calls |-> ran, log |-> logged, result |-> how]

update_outcomes ==
    \* lines 46-48
    {UpdateOutcome(<< >>, None, None, << >>, << "Could not find packages" >>, "returned")}
    \* lines 51-53
    \cup {UpdateOutcome(<< >>, None, None, << >>, << "Could not find lock" >>, "returned")}
    \* lines 55-57: ncu exits non-zero
    \cup {UpdateOutcome(<< >>, None, None, << "ncu" >>, << "Calling ncu" >>, "raised")}
    \* lines 58-62
    \cup {UpdateOutcome(<< >>, None, None, << "ncu" >>,
                        << "Calling ncu", "Failed to decode ncu output" >>, "returned")}
    \* lines 64-75 with no update: npm install is not run
    \cup {UpdateOutcome(<< >>, "<packages>", "<package-lock>", << "ncu" >>,
                        << "Calling ncu" >>, "returned")}
    \* lines 64-67: npm install exits non-zero
    \cup {UpdateOutcome(<< >>, None, None, << "ncu", "npm install" >>,
                        << "Calling ncu", "Calling npm install" >>, "raised")}
    \* lines 64-75
    \cup {UpdateOutcome(d, "<packages>", "<package-lock>", << "ncu", "npm install" >>,
                        << "Calling ncu", "Calling npm install" >>, "returned")
            : d \in UpgradedDicts \ {<< >>}}

----------------------------------------------------------------------------
(* The run *)

Init ==
    /\ pc = "cli"
    /\ merge \in BOOLEAN
    /\ repository \in {"", "org/repo"}
    /\ app_given \in BOOLEAN
    /\ asserts_enabled \in BOOLEAN
    /\ workflows = << >>
    /\ github_app = None
    /\ updates = << >>
    /\ packages = None
    /\ package_locks = None
    /\ head_ref = None
    /\ head_sha = None
    /\ branch_sha = None
    /\ pull_request_id = None
    /\ status = [w \in WorkflowNames |-> "missing"]
    /\ polls = 0
    /\ wait_result = None
    /\ commit = << >>
    /\ pull_request = << >>
    /\ comment = << >>
    /\ calls = << >>
    /\ failed = {}
    /\ log = << >>
    /\ result = "running"

options == << merge, repository, app_given, asserts_enabled >>
produced == << updates, packages, package_locks >>
locals == << head_ref, head_sha, branch_sha, pull_request_id >>
remote == << status, polls, wait_result, commit, pull_request, comment >>

\* lines 148-154
cli_usage ==
    /\ pc = "cli"
    /\ IF usage_error(merge, repository)
       THEN /\ log' = Append(log, "--merge requires --repository")
            /\ pc' = "done"
            /\ result' = "returned"
       ELSE /\ log' = log
            /\ pc' = "Settings.load"
            /\ result' = result
    /\ UNCHANGED << options, workflows, github_app, produced, locals, remote,
                    calls, failed >>

\* lines 156-158
cli_settings ==
    /\ pc = "Settings.load"
    /\ \E w \in SettingsWorkflows : workflows' = w
    /\ calls' = Append(calls, "Settings.load")
    /\ log' = Append(log, "Using settings")
    /\ pc' = "GithubApp"
    /\ UNCHANGED << options, github_app, produced, locals, remote, failed, result >>

\* lines 160-163
cli_github_app ==
    /\ pc = "GithubApp"
    /\ IF app_given
       THEN /\ github_app' = "GithubApp"
            /\ calls' = Append(calls, "GithubApp")
       ELSE UNCHANGED << github_app, calls >>
    /\ pc' = "_update"
    /\ UNCHANGED << options, workflows, produced, locals, remote, failed, log, result >>

\* lines 165-167
cli_update ==
    /\ pc = "_update"
    /\ \E o \in update_outcomes :
        /\ calls' = calls \o << "_update" >> \o o.calls
        /\ IF o.result = "raised"
           THEN /\ failed' = failed \cup {o.calls[Len(o.calls)]}
                /\ log' = log \o o.log
                /\ result' = "raised"
                /\ pc' = "done"
                /\ UNCHANGED produced
           ELSE /\ updates' = o.updates
                /\ packages' = o.packages
                /\ package_locks' = o.package_locks
                /\ log' = log \o o.log \o << "Found updates" >>
                /\ pc' = "_merge"
                /\ UNCHANGED << failed, result >>
    /\ UNCHANGED << options, workflows, github_app, locals, remote >>

\* lines 169-172, when _merge is not called
cli_no_merge ==
    /\ pc = "_merge"
    /\ ~merge_wanted(merge, updates, packages, package_locks)
    /\ pc' = "done"
    /\ result' = "returned"
    /\ UNCHANGED << options, workflows, github_app, produced, locals, remote,
                    calls, failed, log >>

\* lines 169-172 and 84-92: _merge is entered, the Git object is made and
\* the head is asked for
get_head_ref ==
    /\ pc = "_merge"
    /\ merge_wanted(merge, updates, packages, package_locks)
    /\ \E r \in GetHeadRefResults :
        /\ calls' = calls \o << "_merge", "Git", "get_head_ref" >>
        /\ IF r[1] = "raise"
           THEN /\ failed' = failed \cup {"get_head_ref"}
                /\ log' = Append(log, "Merging updated packages files")
                /\ result' = uncaught("raise")
                /\ pc' = "done"
                /\ UNCHANGED << head_ref, head_sha >>
           ELSE /\ head_ref' = r[2]
                /\ head_sha' = r[3]
                /\ failed' = failed
                /\ IF head_unresolved(r[2], r[3])
                   THEN /\ log' = log \o << "Merging updated packages files",
                                            "Failed to get head ref" >>
                        /\ result' = head_unresolved_result
                        /\ pc' = "done"
                   ELSE /\ log' = Append(log, "Merging updated packages files")
                        /\ result' = result
                        /\ pc' = "create_branch"
    /\ UNCHANGED << options, workflows, github_app, produced, branch_sha,
                    pull_request_id, remote >>

\* line 94
create_branch ==
    /\ pc = "create_branch"
    /\ \E r \in CreateBranchResults :
        /\ calls' = Append(calls, "create_branch")
        /\ IF r[1] = "raise"
           THEN /\ failed' = failed \cup {"create_branch"}
                /\ result' = uncaught("raise")
                /\ pc' = "done"
                /\ UNCHANGED branch_sha
           ELSE /\ branch_sha' = r[2]
                /\ pc' = "update_branch_files"
                /\ UNCHANGED << failed, result >>
    /\ UNCHANGED << options, workflows, github_app, produced, head_ref, head_sha,
                    pull_request_id, remote, log >>

\* lines 96-111
update_branch_files ==
    /\ pc = "update_branch_files"
    /\ calls' = Append(calls, "update_branch_files")
    /\ commit' = Append(commit,
                        [branch_sha |-> branch_sha,
                         files |-> file_patch(packages, package_locks),
                         summary |-> Strip(commit_summary(updates)),
                         description |-> Strip(commit_description(updates))])
    /\ log' = log \o << "Using commit summary", "Using commit description" >>
    /\ \E r \in CallResults :
        IF r = "raise"
        THEN /\ failed' = failed \cup {"update_branch_files"}
             /\ result' = uncaught(r)
             /\ pc' = "done"
        ELSE /\ pc' = "create_pull_request"
             /\ UNCHANGED << failed, result >>
    /\ UNCHANGED << options, workflows, github_app, produced, locals, status,
                    polls, wait_result, pull_request, comment >>

\* lines 113-118
create_pull_request ==
    /\ pc = "create_pull_request"
    /\ IF assert_fails(branch_sha, asserts_enabled)
       THEN /\ log' = Append(log, "Creating pull request")
            /\ failed' = failed \cup {"assert"}
            /\ result' = "raised"
            /\ pc' = "done"
            /\ UNCHANGED << calls, pull_request, pull_request_id >>
       ELSE \E r \in CreatePullRequestResults :
            /\ calls' = Append(calls, "create_pull_request")
            /\ pull_request' = Append(pull_request,
                                      [base |-> head_ref,
                                       title |-> Strip(commit_summary(updates)),
                                       body |-> Strip(commit_description(updates))])
            /\ IF r[1] = "raise"
               THEN /\ failed' = failed \cup {"create_pull_request"}
                    /\ log' = Append(log, "Creating pull request")
                    /\ result' = uncaught("raise")
                    /\ pc' = "done"
                    /\ UNCHANGED pull_request_id
               ELSE /\ pull_request_id' = r[2]
                    /\ failed' = failed
                    /\ pc' = after_create_pull_request(r[2])
                    /\ IF pc' = "done"
                       THEN /\ log' = Append(log, "Creating pull request")
                            /\ result' = "returned"
                       ELSE /\ log' = log \o << "Creating pull request",
                                                "Waiting for workflows to complete" >>
                            /\ result' = result
    /\ UNCHANGED << options, workflows, github_app, produced, head_ref, head_sha,
                    branch_sha, status, polls, wait_result, commit, comment >>

\* Git.wait_for_workflows, one poll of the check-run statuses: the wait
\* polls until every required workflow is settled or the timeout is used up
poll_workflows ==
    /\ pc = "wait_for_workflows"
    /\ may_poll(polls, workflows, status)
    /\ \E observed \in [WorkflowNames -> Statuses] : status' = observed
    /\ polls' = IF polls < MaxPolls THEN polls + 1 ELSE polls
    /\ calls' = IF polls = 0 THEN Append(calls, "wait_for_workflows") ELSE calls
    /\ UNCHANGED << pc, options, workflows, github_app, produced, locals,
                    wait_result, commit, pull_request, comment, failed, log, result >>

\* lines 119-120 and 122-123: the wait returns its verdict, or raises
wait_for_workflows ==
    /\ pc = "wait_for_workflows"
    /\ polls > 0
    /\ \/ /\ wait_over(polls, workflows, status)
          /\ \E verdict \in workflow_verdicts(workflows, status) :
                /\ wait_result' = IF verdict THEN "True" ELSE "False"
                /\ pc' = after_wait_for_workflows(verdict)
                /\ log' = Append(log, IF pc' = "merge_pull_request"
                                      THEN "Merging pull request"
                                      ELSE "Closing failed pull request")
                /\ UNCHANGED << failed, result >>
       \/ /\ failed' = failed \cup {"wait_for_workflows"}
          /\ result' = uncaught("raise")
          /\ pc' = "done"
          /\ UNCHANGED << wait_result, log >>
    /\ UNCHANGED << options, workflows, github_app, produced, locals, status, polls,
                    commit, pull_request, comment, calls >>

\* line 121
merge_pull_request ==
    /\ pc = "merge_pull_request"
    /\ calls' = Append(calls, "merge_pull_request")
    /\ \E r \in CallResults :
        /\ failed' = IF r = "raise" THEN failed \cup {"merge_pull_request"} ELSE failed
        /\ pc' = IF r = "raise" THEN "done" ELSE after_merge_pull_request
        /\ result' = IF pc' = "done" THEN uncaught(r) ELSE result
    /\ UNCHANGED << options, workflows, github_app, produced, locals, remote, log >>

\* lines 124-130
create_issue_comment ==
    /\ pc = "create_issue_comment"
    /\ calls' = Append(calls, "create_issue_comment")
    /\ comment' = Append(comment, comment_text(workflows))
    /\ \E r \in CallResults :
        /\ failed' = IF r = "raise" THEN failed \cup {"create_issue_comment"} ELSE failed
        /\ log' = IF r = "raise" THEN Append(log, "Failed to create commit comment")
                  ELSE log
        /\ pc' = after_create_issue_comment(r)
        /\ result' = IF pc' = "done" THEN uncaught(r) ELSE result
    /\ UNCHANGED << options, workflows, github_app, produced, locals, status,
                    polls, wait_result, commit, pull_request >>

\* line 131
delete_branch ==
    /\ pc = "delete_branch"
    /\ calls' = Append(calls, "delete_branch")
    /\ \E r \in CallResults :
        /\ failed' = IF r = "raise" THEN failed \cup {"delete_branch"} ELSE failed
        /\ result' = uncaught(r)
    /\ pc' = "done"
    /\ UNCHANGED << options, workflows, github_app, produced, locals, remote, log >>

Next ==
    \/ cli_usage
    \/ cli_settings
    \/ cli_github_app
    \/ cli_update
    \/ cli_no_merge
    \/ get_head_ref
    \/ create_branch
    \/ update_branch_files
    \/ create_pull_request
    \/ poll_workflows
    \/ wait_for_workflows
    \/ merge_pull_request
    \/ create_issue_comment
    \/ delete_branch

Spec == Init /\ [][Next]_vars

\* the run is one sequential thread: it always takes its next step
LiveSpec == Init /\ [][Next]_vars /\ WF_vars(Next)

----------------------------------------------------------------------------
(* Vocabulary of the properties *)

Called(op) == Contains(calls, op)

Raised(op) == op \in failed

Done == pc = "done"

\* the wait returned a verdict (it did not raise)
WaitReturned == Called("wait_for_workflows") /\ wait_result # None

Required == {workflows[i] : i \in DOMAIN workflows}

NotSucceeded == {w \in Required : status[w] # "success"}

\* CHECKS_PASSED is line 120, CHECKS_FAILED is line 123
ChecksPassed == Contains(log, "Merging pull request")

ChecksFailed == Contains(log, "Closing failed pull request")

----------------------------------------------------------------------------
(* Properties *)

\* C1: when the wait returns and does not report success for every required
\* workflow (it returns false, or some required workflow is observed in a
\* status other than success), the run reaches CHECKS_FAILED and
\* merge_pull_request is not called.
C1_FailedChecksNeverMerge ==
    (WaitReturned /\ (wait_result = "False" \/ NotSucceeded # {}))
        => (ChecksFailed /\ ~ChecksPassed /\ ~Called("merge_pull_request"))

C1_Witness ==
    /\ Done
    /\ workflows = << "A", "B" >>
    /\ status["A"] = "success"
    /\ status["B"] = "failure"
    /\ ChecksFailed
    /\ Called("delete_branch")

\* C2: a finished run in which the wait reported success (for a non-empty
\* required list: every required workflow was observed as success) called
\* merge_pull_request exactly once and delete_branch not at all.
C2_PassedChecksMergeOnce ==
    (Done /\ WaitReturned
          /\ (wait_result = "True" \/ (Required # {} /\ NotSucceeded = {})))
        => (/\ ChecksPassed
            /\ Count(calls, "merge_pull_request") = 1
            /\ Count(calls, "delete_branch") = 0)

C2_Witness ==
    /\ Done
    /\ workflows = << "A", "B" >>
    /\ NotSucceeded = {}
    /\ head_ref = "main"
    /\ branch_sha = "sha0"
    /\ pull_request_id = "pr1"
    /\ Count(calls, "merge_pull_request") = 1
    /\ result = "returned"

\* C3: when create_branch yields no branch SHA (it raised or returned
\* None), update_branch_files and create_pull_request are never called.
C3_NoCommitWithoutBranch ==
    (Called("create_branch") /\ branch_sha = None)
        => (~Called("update_branch_files") /\ ~Called("create_pull_request"))

\* C4: a finished run in which create_branch succeeded and
\* update_branch_files failed called delete_branch and opened no pull request.
C4_CommitFailureDeletesBranch ==
    (Done /\ branch_sha # None /\ Raised("update_branch_files"))
        => (Called("delete_branch") /\ ~Called("create_pull_request"))

\* C5: a finished run in which branch and commit succeeded and
\* create_pull_request failed (raised or returned no id) called delete_branch
\* and called neither wait_for_workflows nor merge_pull_request.
C5_PullRequestFailureDeletesBranch ==
    (Done /\ branch_sha # None /\ ~Raised("update_branch_files")
          /\ Called("create_pull_request") /\ pull_request_id = None)
        => (/\ Called("delete_branch")
            /\ ~Called("wait_for_workflows")
            /\ ~Called("merge_pull_request"))

\* C6: a finished run that took the rollback path called delete_branch,
\* also when create_issue_comment raised; the failure of the comment is
\* logged and does not end the run.
C6_RollbackAlwaysDeletesBranch ==
    (Done /\ ChecksFailed)
        => (/\ Called("create_issue_comment")
            /\ Count(calls, "delete_branch") = 1
            /\ calls[Len(calls)] = "delete_branch"
            /\ Raised("create_issue_comment")
                   <=> Contains(log, "Failed to create commit comment"))

C6_Witness ==
    /\ Done
    /\ ChecksFailed
    /\ Raised("create_issue_comment")
    /\ Called("delete_branch")

\* C7: the diagnostic comment names exactly the required workflows that did
\* not succeed.
C7_CommentNamesFailedWorkflows ==
    \A i \in DOMAIN comment :
        \A w \in WorkflowNames : Contains(comment[i], w) <=> w \in NotSucceeded

\* C8: a finished run whose wait_for_workflows failed instead of returning
\* a verdict did not merge and performed the rollback: the diagnostic
\* comment and then delete_branch.
C8_StatusFailureRollsBack ==
    (Done /\ Raised("wait_for_workflows"))
        => (/\ ~Called("merge_pull_request")
            /\ Called("create_issue_comment")
            /\ Called("delete_branch"))

\* C9: a finished run whose merge_pull_request failed ends with an
\* exception at the caller of cli, whereas a run that merged and a run that
\* rolled back (delete_branch done) return normally.
C9_MergeFailureSurfaced ==
    Done =>
        /\ Raised("merge_pull_request") => result = "raised"
        /\ (Called("merge_pull_request") /\ ~Raised("merge_pull_request"))
               => result = "returned"
        /\ (Called("delete_branch") /\ ~Raised("delete_branch"))
               => result = "returned"

C9_Witness ==
    /\ Done
    /\ ChecksPassed
    /\ Raised("merge_pull_request")
    /\ result = "raised"

\* C10: merge_pull_request, whether it succeeds or fails, is the last
\* remote operation of its run: it is not repeated and no comment is posted
\* nor branch deleted after it.
C10_NothingAfterMerge ==
    /\ \A i \in DOMAIN calls : calls[i] = "merge_pull_request" => i = Len(calls)
    /\ Called("merge_pull_request")
           => (Done /\ comment = << >> /\ ~Called("delete_branch"))

C10_Witness ==
    /\ Done
    /\ Called("merge_pull_request")
    /\ calls[Len(calls)] = "merge_pull_request"
    /\ result \in {"returned", "raised"}

\* the operations of the Git object, in the order _merge uses them
GitOperations ==
    {"get_head_ref", "create_branch", "update_branch_files", "create_pull_request",
     "wait_for_workflows", "merge_pull_request", "create_issue_comment",
     "delete_branch"}

IsGitOperation(op) == op \in GitOperations

RemoteCalls == SelectSeq(calls, IsGitOperation)

\* C11: once get_head_ref has been called without yielding both a head ref
\* and a head SHA, the run is over and no other Git operation was called;
\* when get_head_ref returned, the failure is logged and _merge returns.
C11_UnresolvedHeadNoSideEffects ==
    (Called("get_head_ref") /\ (~Truthy(head_ref) \/ ~Truthy(head_sha)))
        => (/\ Done
            /\ RemoteCalls = << "get_head_ref" >>
            /\ commit = << >> /\ pull_request = << >> /\ comment = << >>
            /\ ~Raised("get_head_ref")
                   => (Contains(log, "Failed to get head ref") /\ result = "returned"))

C11_Witness ==
    /\ Done
    /\ Called("get_head_ref")
    /\ head_ref = "main"
    /\ head_sha = None
    /\ result = "returned"

\* C12: with --merge and no repository, cli stops at the usage check:
\* settings are not loaded, _update is not called, no GithubApp and no Git
\* object is made.
C12_UsageErrorShortCircuits ==
    (merge /\ repository = "")
        => (/\ calls = << >>
            /\ pc \in {"cli", "done"}
            /\ github_app = None
            /\ workflows = << >> /\ updates = << >>)

C12_Witness ==
    /\ Done
    /\ merge
    /\ repository = ""
    /\ Contains(log, "--merge requires --repository")
    /\ result = "returned"

\* C13: after _update has produced an empty Change Set (missing manifest,
\* missing lockfile, undecodable ncu output or nothing to upgrade), _merge
\* is not entered and no Git operation is performed.
C13_NoUpdatesNoMerge ==
    (Called("_update") /\ updates = << >>)
        => (~Called("_merge") /\ ~Called("Git") /\ RemoteCalls = << >>)

C13_Witness ==
    /\ Done
    /\ merge
    /\ repository = "org/repo"
    /\ Called("ncu")
    /\ updates = << >>
    /\ packages = "<packages>"
    /\ package_locks = "<package-lock>"
    /\ result = "returned"

\* the lines of a text: the runs of tokens between newline tokens
RECURSIVE Lines(_)
Lines(text) ==
    IF ~Contains(text, "\n") THEN << text >>
    ELSE LET n == CHOOSE i \in DOMAIN text :
                      text[i] = "\n" /\ \A j \in 1..(i - 1) : text[j] # "\n"
         IN << SubSeq(text, 1, n - 1) >> \o Lines(SubSeq(text, n + 1, Len(text)))

\* the texts given to update_branch_files and to create_pull_request
Descriptions ==
    {commit[i].description : i \in DOMAIN commit}
        \cup {pull_request[i].body : i \in DOMAIN pull_request}

Summaries ==
    {commit[i].summary : i \in DOMAIN commit}
        \cup {pull_request[i].title : i \in DOMAIN pull_request}

C16_OneTerminalAction ==
    /\ Count(calls, "merge_pull_request") <= 1
    /\ Count(calls, "delete_branch") <= 1
    /\ ~(Called("merge_pull_request") /\ Called("delete_branch"))

C16_Witness ==
    /\ Done
    /\ Count(calls, "delete_branch") = 1
    /\ Count(calls, "merge_pull_request") = 0
    /\ ~Raised("delete_branch")
    /\ ~Raised("create_issue_comment")

IsPrefix(s, t) == Len(s) <= Len(t) /\ s = SubSeq(t, 1, Len(s))

MergedRun ==
    << "get_head_ref", "create_branch", "update_branch_files", "create_pull_request",
       "wait_for_workflows", "merge_pull_request" >>

RolledBackRun ==
    << "get_head_ref", "create_branch", "update_branch_files", "create_pull_request",
       "wait_for_workflows", "create_issue_comment", "delete_branch" >>

\* C17: the Git operations of a run, in call order, are a prefix of
\* get_head_ref, create_branch, update_branch_files, create_pull_request,
\* wait_for_workflows followed by merge_pull_request or by
\* create_issue_comment and delete_branch.
C17_OperationOrder ==
    IsPrefix(RemoteCalls, MergedRun) \/ IsPrefix(RemoteCalls, RolledBackRun)

C17_Witness ==
    /\ Done
    /\ RemoteCalls = RolledBackRun
    /\ result = "returned"

\* C18: update_branch_files is called at most once, and its patch holds
\* exactly package.json and package-lock.json, each with the text _update
\* returned for it.
C18_SinglePatch ==
    /\ Len(commit) <= 1
    /\ Count(calls, "update_branch_files") = Len(commit)
    /\ \A i \in DOMAIN commit :
        /\ DOMAIN commit[i].files = {"package.json", "package-lock.json"}
        /\ commit[i].files["package.json"] = packages
        /\ commit[i].files["package-lock.json"] = package_locks
        /\ packages = "<packages>"
        /\ package_locks = "<package-lock>"

C18_Witness ==
    /\ Done
    /\ Len(commit) = 1
    /\ ~Raised("update_branch_files")
    /\ commit[1].branch_sha = "sha0"
    /\ commit[1].files["package.json"] = "<packages>"

====
